---- MODULE Spec2Model ----
(***************************************************************************)
(* A model of bert_main2.py: the fine-tuning driver (main), its training   *)
(* pass (train), its evaluation pass (evaluate) and the feature cache      *)
(* (load_and_cache_examples).                                              *)
(*                                                                         *)
(* Numbers the script computes in floating point are kept exact: a         *)
(* quotient a/b is the pair <<a, b>>, compared by cross-multiplication.    *)
(* The combined metric acc_and_f1 is an integer 0..MaxMetric standing for  *)
(* the value m/MaxMetric.  The loss of a forward pass is a positive        *)
(* integer determined by the seed, the parameters and the batch.           *)
(***************************************************************************)
EXTENDS Integers, Sequences, FiniteSets, TLC

VARIABLES
    \* ---- run arguments (fixed for a run)
    train_batch_size,   \* args.train_batch_size
    num_train_epochs,   \* args.num_train_epochs
    warmup_steps,       \* args.warmup_steps
    seed,               \* args.seed
    \* ---- main
    pc,                 \* position of the driver
    epoch,              \* loop variable of "for epoch in range(...)"
    best_acc_f1,        \* best-so-far combined metric
    results,            \* what evaluate returned to main
    saves,              \* epochs at which the save branch ran
    \* ---- model, optimizer, scheduler
    params,             \* version of the model parameters (updates applied)
    opt_steps,          \* number of optimizer.step() calls
    sched_steps,        \* scheduler.last_epoch
    training,           \* TRUE after model.train(), FALSE after model.eval()
    \* ---- locals of train
    tr_loss, logging_loss, global_step, preds, out_label_ids,
    \* ---- locals of evaluate
    ev_order, ev_tr_loss, ev_global_step, ev_preds, ev_out_label_ids,
    \* ---- <output_dir>/<log_path>
    dir_exists, files,
    \* ---- feature cache (working directory) and what feeds it
    cache,              \* cached_train_bert / cached_dev_bert
    csv,                \* which train.csv / dev.csv the data directory holds
    tokenizer, max_seq_length,
    tok_calls,          \* calls of convert_examples_to_features, per split
    csv_reads,          \* calls of _create_examples, per split
    returned            \* the datasets load_and_cache_examples returned, per split

argvars   == <<train_batch_size, num_train_epochs, warmup_steps, seed>>
mainvars  == <<pc, epoch, best_acc_f1, results, saves>>
modelvars == <<params, opt_steps, sched_steps, training>>
trainvars == <<tr_loss, logging_loss, global_step, preds, out_label_ids>>
evalvars  == <<ev_order, ev_tr_loss, ev_global_step, ev_preds, ev_out_label_ids>>
fsvars    == <<dir_exists, files>>
cachevars == <<cache, csv, tokenizer, max_seq_length, tok_calls, csv_reads, returned>>
runvars   == <<argvars, mainvars, modelvars, trainvars, evalvars, fsvars>>
vars      == <<runvars, cachevars>>

\* len(dataset) of the dataset the last call for split s returned
DatasetLen(s) ==
    IF returned[s] = <<>> THEN 0 ELSE Len(returned[s][Len(returned[s])].label)

\* len(train_dataset), len(eval_dataset) in main
n_train == DatasetLen("train")
n_eval  == DatasetLen("dev")

-----------------------------------------------------------------------------
\* Bounds of the model

MaxEpochs     == 4      \* num_train_epochs ranges over 0..MaxEpochs (short datasets)
MaxLongEpochs == 2      \* ... and over 0..MaxLongEpochs for the long dataset
MaxMetric     == 4      \* acc_and_f1 ranges over 0..MaxMetric
LongTrain     == 201    \* rows of the long train.csv (two log events at batch size 1)
MaxCalls      == 3      \* calls of load_and_cache_examples per split

\* Program constants
LogEvery == 100                         \* "if global_step % 100 == 0"
gradient_accumulation_steps == 1        \* argparse default

BatchSizes  == {1, 2}
\* --warmup_steps and --seed of a run
ArgChoices  == {[warmup_steps |-> 0, seed |-> 42], [warmup_steps |-> 2, seed |-> 43]}
Metrics     == 0..MaxMetric

EpochChoices(n) == IF n >= LogEvery THEN 0..MaxLongEpochs ELSE 0..MaxEpochs

-----------------------------------------------------------------------------
\* Arithmetic helpers

Max(a, b) == IF a >= b THEN a ELSE b

\* a/b = c/d for quotients kept as pairs
RatEq(x, y) == x[1] * y[2] = y[1] * x[2]

\* the permutations of 1..n, as sequences
Perms(n) == { p \in [1..n -> 1..n] : \A i, j \in 1..n : p[i] = p[j] => i = j }

\* s[from..to], clipped to the length of s
Slice(s, from, to) == [i \in 1..(IF to < Len(s) THEN to ELSE Len(s)) - from + 1 |-> s[from + i - 1]]

-----------------------------------------------------------------------------
\* DataLoader(dataset, sampler, batch_size): drop_last is not set, so the
\* last batch holds the remainder.

NumBatches(n, bs) == (n + bs - 1) \div bs

BatchLen(n, bs, k) == IF k * bs <= n THEN bs ELSE n - (k - 1) * bs

\* model(**inputs)[0]: the loss of the k-th batch under parameters p
ForwardLoss(sd, p, k) == 1 + ((sd + p + k) % 3)

-----------------------------------------------------------------------------
\* The scheduler

\* t_total as main computes it
TTotal(n, epochs, bs) == (n \div gradient_accumulation_steps) * epochs * bs

\* WarmupLinearSchedule.lr_lambda(step), as a quotient
LrLambda(step, warmup, t_total) ==
    IF step < warmup
    THEN <<step, Max(1, warmup)>>
    ELSE <<Max(0, t_total - step), Max(1, t_total - warmup)>>

\* scheduler.get_lr()[0], in units of args.learning_rate
GetLr(step) == LrLambda(step, warmup_steps, TTotal(n_train, num_train_epochs, train_batch_size))

-----------------------------------------------------------------------------
\* The log directory: a file is [exists, data]; data is a sequence of
\* lines (log files) or a one-element sequence (checkpoint files).

LogFiles  == {"train_loss_file.txt", "train_acc_file.txt", "eval_loss_file.txt"}
CkptFiles == {"pytorch_model.bin", "vocab.txt", "training_args_bert.bin"}
FileNames == LogFiles \cup CkptFiles

NoFile == [exists |-> FALSE, data |-> <<>>]

StaleLine == [stale |-> TRUE]

\* what an earlier run left behind
PriorDirs ==
    { [exists |-> FALSE, files |-> [f \in FileNames |-> NoFile]],
      [exists |-> TRUE,  files |-> [f \in FileNames |-> NoFile]],
      [exists |-> TRUE,  files |-> [f \in FileNames |->
            [exists |-> TRUE,
             data |-> IF f \in LogFiles THEN <<StaleLine, StaleLine>> ELSE <<StaleLine>>]]] }

\* open(path, 'a+') ... write(line)
AppendLine(fs, f, line) ==
    [fs EXCEPT ![f] = [exists |-> TRUE, data |-> Append(fs[f].data, line)]]

\* save_pretrained / torch.save: the file is replaced
WriteFile(fs, f, content) ==
    [fs EXCEPT ![f] = [exists |-> TRUE, data |-> <<content>>]]

\* (mutant) an existing directory is left as it is
ClearDir_keeps(fs) == fs

\* for file in os.listdir(d): os.remove(...)
ClearDir(fs) == [f \in FileNames |-> NoFile]

-----------------------------------------------------------------------------
\* Feature cache: pure parts

Splits == {"train", "dev"}

CsvVersions == {1, 2}
Tokenizers  == {1, 2}
MaxLengths  == {2, 3}

\* the number of rows of version c of <data_dir>/train.csv or dev.csv
CsvLen(s, c) ==
    IF s = "train" THEN (IF c = 1 THEN 4 ELSE LongTrain)
    ELSE                (IF c = 1 THEN 2 ELSE 3)

\* _create_examples: the rows of a CSV, each the token sequence of its text
\* pair (1 to 3 tokens) and its label
CsvRows(s, c) ==
    [i \in 1..CsvLen(s, c) |->
        [text  |-> [j \in 1..(1 + ((i + c) % 3)) |-> 1 + ((i + j + c) % 3)],
         label |-> (i + c) % 2]]

\* tokenizer t maps token w to an id; 0 is the pad id
TokenId(t, w) == 10 * t + w

\* one example to one feature: truncate to max_length, pad on the right
ConvertOne(row, t, maxlen) ==
    [input_ids |-> [i \in 1..maxlen |->
                        IF i <= Len(row.text) THEN TokenId(t, row.text[i]) ELSE 0],
     attention_mask |-> [i \in 1..maxlen |-> IF i <= Len(row.text) THEN 1 ELSE 0],
     label |-> row.label]

\* convert_examples_to_features(examples, tokenizer, max_length, ...)
ConvertExamples(rows, t, maxlen) == [i \in 1..Len(rows) |-> ConvertOne(rows[i], t, maxlen)]

NoCache == [exists |-> FALSE, features |-> <<>>]

\* (mutant) the cache is used only if it matches the current configuration
CacheHit_validating(s) ==
    /\ cache[s].exists
    /\ cache[s].features = ConvertExamples(CsvRows(s, csv[s]), tokenizer, max_seq_length)

\* "if os.path.exists(cached_features_file)"
CacheHit(s) == cache[s].exists

\* lines 226-231: the TensorDataset built from the features, column by column
BuildDataset(features) ==
    [input_ids      |-> [i \in DOMAIN features |-> features[i].input_ids],
     attention_mask |-> [i \in DOMAIN features |-> features[i].attention_mask],
     label          |-> [i \in DOMAIN features |-> features[i].label]]

\* the body of load_and_cache_examples (lines 187-231) for split s
LoadFeatures(s) ==
    /\ IF CacheHit(s)
       THEN /\ returned' = [returned EXCEPT ![s] = Append(@, BuildDataset(cache[s].features))]
            /\ UNCHANGED <<cache, tok_calls, csv_reads>>
       ELSE LET examples == CsvRows(s, csv[s])
                features == ConvertExamples(examples, tokenizer, max_seq_length)
            IN  /\ csv_reads' = [csv_reads EXCEPT ![s] = @ + 1]
                /\ tok_calls' = [tok_calls EXCEPT ![s] = @ + 1]
                /\ cache' = [cache EXCEPT ![s] = [exists |-> TRUE, features |-> features]]
                /\ returned' = [returned EXCEPT ![s] = Append(@, BuildDataset(features))]
    /\ UNCHANGED <<csv, tokenizer, max_seq_length>>

\* the working directory holds no cache file for split s, or one an earlier
\* run wrote from CSV version c with tokenizer t and max_seq_length m
PriorCache(s, c, t, m) ==
    [exists |-> TRUE, features |-> ConvertExamples(CsvRows(s, c), t, m)]

-----------------------------------------------------------------------------
\* Initial state: the arguments are parsed and the tokenizer is loaded (line
\* 282); the working directory holds the cache files an earlier run left, if
\* any, and the log directory is as an earlier run left it.  The model, the
\* optimizer and the scheduler are built after the datasets (lines 288-303);
\* nothing reads them before, and the scheduler's constructor leaves
\* last_epoch = 0.

\* the cache files a run of main may find: none (a fresh working directory),
\* or those an earlier run wrote before the CSV files were replaced by the
\* versions csv now names (same tokenizer, same max_seq_length)
WorkDirs(csvs, t, m) ==
    { [s \in Splits |-> NoCache],
      [s \in Splits |-> PriorCache(s, CHOOSE c \in CsvVersions : c # csvs[s], t, m)] }

Init ==
    /\ csv \in [Splits -> CsvVersions]
    /\ tokenizer = 1
    /\ max_seq_length = 2
    /\ cache \in WorkDirs(csv, tokenizer, max_seq_length)
    /\ tok_calls = [s \in Splits |-> 0]
    /\ csv_reads = [s \in Splits |-> 0]
    /\ returned = [s \in Splits |-> <<>>]
    /\ train_batch_size \in BatchSizes
    /\ num_train_epochs \in EpochChoices(
            IF cache["train"].exists THEN Len(cache["train"].features)
            ELSE CsvLen("train", csv["train"]))
    /\ \E a \in ArgChoices : warmup_steps = a.warmup_steps /\ seed = a.seed
    /\ pc = "START"
    /\ epoch = 0
    /\ best_acc_f1 = 0
    /\ results = [loss |-> <<0, 1>>, acc_and_f1 |-> 0,
                  on |-> [n_preds |-> 0, n_labels |-> 0, examples |-> {}]]
    /\ saves = {}
    /\ params = 0 /\ opt_steps = 0 /\ sched_steps = 0 /\ training = FALSE
    /\ tr_loss = 0 /\ logging_loss = 0 /\ global_step = 0
    /\ preds = <<>> /\ out_label_ids = <<>>
    /\ ev_order = <<>> /\ ev_tr_loss = 0 /\ ev_global_step = 0
    /\ ev_preds = <<>> /\ ev_out_label_ids = <<>>
    /\ \E d \in PriorDirs : dir_exists = d.exists /\ files = d.files

-----------------------------------------------------------------------------
\* main: the datasets (lines 284-285)

\* train_dataset = load_and_cache_examples(args, tokenizer, evaluate=False)
LoadTrainDataset ==
    /\ pc = "START"
    /\ LoadFeatures("train")
    /\ pc' = "LOADED_TRAIN"
    /\ UNCHANGED <<argvars, epoch, best_acc_f1, results, saves, modelvars,
                   trainvars, evalvars, fsvars>>

\* eval_dataset = load_and_cache_examples(args, tokenizer, evaluate=True)
LoadEvalDataset ==
    /\ pc = "LOADED_TRAIN"
    /\ LoadFeatures("dev")
    /\ pc' = "INIT"
    /\ UNCHANGED <<argvars, epoch, best_acc_f1, results, saves, modelvars,
                   trainvars, evalvars, fsvars>>

-----------------------------------------------------------------------------
\* main: the log directory (lines 310-318)

SetupLogDir ==
    /\ pc = "INIT"
    /\ best_acc_f1' = 0
    /\ IF ~dir_exists
       THEN dir_exists' = TRUE /\ files' = files        \* os.makedirs
       ELSE dir_exists' = TRUE /\ files' = ClearDir(files)
    /\ pc' = "LOOP"
    /\ UNCHANGED <<argvars, epoch, results, saves, modelvars, trainvars, evalvars, cachevars>>

\* (mutant) the loop gives up after an epoch that did not reach the best metric
LoopContinues_earlystop(e, n) == e < n /\ ~(e > 0 /\ results.acc_and_f1 < best_acc_f1)

\* "for epoch in range(args.num_train_epochs)": is there another epoch
LoopContinues(e, n) == e < n

-----------------------------------------------------------------------------
\* train (lines 80-142)

\* (mutant) the test is made on the 0-based step index of the loop
LogDue_zero_based(gs) == (gs - 1) % LogEvery = 0

\* "if global_step % 100 == 0"
LogDue(gs) == gs % LogEvery = 0

\* the loss value of the line written to the loss log
LoggedLoss(ll, gs, bs) == <<ll, gs * bs>>

\* np.append(acc, batch, axis=0); None stands for the empty accumulator
AppendBatch(acc, batch) == acc \o batch

\* (mutant) the accumulators are not reset after a log event
ResetAccumulator_keeps(acc) == acc

\* "preds = None" / "out_label_ids = None" after a log event
ResetAccumulator(acc) == <<>>

\* "logging_loss = 0.0" after the loss line is written
ResetLoggingLoss(ll) == 0

\* acc_f1_pea_spea(total_preds, out_label_ids): the metrics of a logging
\* interval, kept as the entries they were computed on
IntervalMetrics(p, l) ==
    [n_preds  |-> Len(p),
     n_labels |-> Len(l),
     steps    |-> {p[i] : i \in DOMAIN p}]

\* lines 321, 81-90: main enters train, which resets its locals
TrainBegin ==
    /\ pc = "LOOP"
    /\ LoopContinues(epoch, num_train_epochs)
    /\ training' = TRUE
    /\ tr_loss' = 0 /\ logging_loss' = 0 /\ global_step' = 0
    /\ preds' = <<>> /\ out_label_ids' = <<>>
    /\ pc' = "TRAIN"
    /\ UNCHANGED <<argvars, epoch, best_acc_f1, results, saves,
                   params, opt_steps, sched_steps, evalvars, fsvars, cachevars>>

\* lines 91-141: one iteration of the batch loop.  Every entry a batch adds
\* to an accumulator is tagged with the step that produced it.
TrainStep ==
    /\ pc = "TRAIN"
    /\ global_step < NumBatches(n_train, train_batch_size)
    /\ LET k     == global_step + 1
           loss  == ForwardLoss(seed, params, k)
           batch == [i \in 1..BatchLen(n_train, train_batch_size, k) |-> k]
           ll    == logging_loss + loss
           p     == AppendBatch(preds, batch)
           l     == AppendBatch(out_label_ids, batch)
           lr    == GetLr(sched_steps + 1)
       IN  /\ tr_loss' = tr_loss + loss
           /\ opt_steps' = opt_steps + 1
           /\ params' = params + 1
           /\ sched_steps' = sched_steps + 1
           /\ global_step' = k
           /\ IF LogDue(k)
              THEN /\ logging_loss' = ResetLoggingLoss(ll)
                   /\ files' = AppendLine(
                                 AppendLine(files, "train_loss_file.txt",
                                    [stale |-> FALSE, iteration |-> k, lr |-> lr,
                                     loss |-> LoggedLoss(ll, k, train_batch_size)]),
                                 "train_acc_file.txt",
                                    [stale |-> FALSE, iteration |-> k, lr |-> lr,
                                     loss |-> LoggedLoss(ResetLoggingLoss(ll), k, train_batch_size),
                                     results |-> IntervalMetrics(p, l)])
                   /\ preds' = ResetAccumulator(p)
                   /\ out_label_ids' = ResetAccumulator(l)
              ELSE /\ logging_loss' = ll
                   /\ files' = files
                   /\ preds' = p
                   /\ out_label_ids' = l
    /\ UNCHANGED <<argvars, mainvars, training, evalvars, dir_exists, cachevars>>

\* line 142: the loop is exhausted, the epoch's mean loss is printed, train returns
TrainEnd ==
    /\ pc = "TRAIN"
    /\ global_step = NumBatches(n_train, train_batch_size)
    /\ pc' = "TRAINED"
    /\ UNCHANGED <<argvars, epoch, best_acc_f1, results, saves, modelvars,
                   trainvars, evalvars, fsvars, cachevars>>

-----------------------------------------------------------------------------
\* evaluate (lines 144-184)

\* (mutant) the evaluation loop keeps the optimizer and scheduler steps of train
EvalModelEffect_stepping ==
    /\ params' = params + 1
    /\ opt_steps' = opt_steps + 1
    /\ sched_steps' = sched_steps + 1

\* what an evaluation step does to the model, the optimizer and the scheduler:
\* the forward pass runs under torch.no_grad() and nothing is stepped
EvalModelEffect == UNCHANGED <<params, opt_steps, sched_steps>>

\* tr_loss / (global_step * args.train_batch_size); each summand was divided
\* by gradient_accumulation_steps if that is above 1 (lines 163-164)
EvalMeanLoss(sum, gs, bs) ==
    <<sum, (IF gradient_accumulation_steps > 1 THEN gradient_accumulation_steps ELSE 1) * gs * bs>>

\* lines 322, 145-153: main enters evaluate; the RandomSampler draws an order
EvalBegin ==
    /\ pc = "TRAINED"
    /\ training' = FALSE
    /\ ev_order' \in Perms(n_eval)
    /\ ev_tr_loss' = 0 /\ ev_global_step' = 0
    /\ ev_preds' = <<>> /\ ev_out_label_ids' = <<>>
    /\ pc' = "EVAL"
    /\ UNCHANGED <<argvars, epoch, best_acc_f1, results, saves,
                   params, opt_steps, sched_steps, trainvars, fsvars, cachevars>>

\* lines 155-177: one iteration of the batch loop; the entries are the
\* examples of the batch
EvalStep ==
    /\ pc = "EVAL"
    /\ ev_global_step < NumBatches(n_eval, train_batch_size)
    /\ LET k     == ev_global_step + 1
           batch == Slice(ev_order, (k - 1) * train_batch_size + 1, k * train_batch_size)
       IN  /\ ev_tr_loss' = ev_tr_loss + ForwardLoss(seed, params, k)
           /\ ev_global_step' = k
           /\ ev_preds' = AppendBatch(ev_preds, batch)
           /\ ev_out_label_ids' = AppendBatch(ev_out_label_ids, batch)
    /\ EvalModelEffect
    /\ UNCHANGED <<argvars, mainvars, training, ev_order, trainvars, fsvars, cachevars>>

\* acc_f1_pea_spea(preds, out_label_ids): what the metrics of an evaluation
\* are computed on: how many entries, and of which examples
EvalMetricsInput(p, l) ==
    [n_preds  |-> Len(p),
     n_labels |-> Len(l),
     examples |-> {p[i] : i \in DOMAIN p}]

\* lines 179-184: the mean loss and the metrics are computed and returned
\* (the locals of evaluate go out of scope); the value of acc_and_f1 depends
\* on the model's predictions
EvalEnd ==
    /\ pc = "EVAL"
    /\ ev_global_step = NumBatches(n_eval, train_batch_size)
    /\ \E m \in Metrics :
          results' = [loss |-> EvalMeanLoss(ev_tr_loss, ev_global_step, train_batch_size),
                      acc_and_f1 |-> m,
                      on |-> EvalMetricsInput(ev_preds, ev_out_label_ids)]
    /\ ev_order' = <<>> /\ ev_tr_loss' = 0 /\ ev_global_step' = 0
    /\ ev_preds' = <<>> /\ ev_out_label_ids' = <<>>
    /\ pc' = "EVALUATED"
    /\ UNCHANGED <<argvars, epoch, best_acc_f1, saves, modelvars, trainvars,
                   fsvars, cachevars>>

-----------------------------------------------------------------------------
\* main: the summary line and the checkpoint decision (lines 323-331)

\* (mutant) a tie with the best so far saves too
ShouldSave_nonstrict(metric, best) == metric >= best

\* (mutant) every epoch saves
ShouldSave_always(metric, best) == TRUE

\* "if results[1]['acc_and_f1'] > best_acc_f1"
ShouldSave(metric, best) == metric > best

\* save_pretrained (model, tokenizer) and torch.save(args, ...)
SaveCheckpoint(fs) ==
    WriteFile(
      WriteFile(
        WriteFile(fs, "pytorch_model.bin", [stale |-> FALSE, params |-> params]),
        "vocab.txt", [stale |-> FALSE, tokenizer |-> tokenizer]),
      "training_args_bert.bin",
      [stale |-> FALSE, num_train_epochs |-> num_train_epochs,
       train_batch_size |-> train_batch_size])

Checkpoint ==
    /\ pc = "EVALUATED"
    /\ LET line    == [stale |-> FALSE, epoch |-> epoch, lr |-> GetLr(sched_steps),
                       eval_loss |-> results.loss, acc_and_f1 |-> results.acc_and_f1]
           written  == AppendLine(files, "eval_loss_file.txt", line)
       IN  IF ShouldSave(results.acc_and_f1, best_acc_f1)
           THEN /\ best_acc_f1' = results.acc_and_f1
                /\ files' = SaveCheckpoint(written)
                /\ saves' = saves \cup {epoch}
           ELSE /\ best_acc_f1' = best_acc_f1
                /\ files' = written
                /\ saves' = saves
    /\ epoch' = epoch + 1
    /\ pc' = "LOOP"
    /\ UNCHANGED <<argvars, results, modelvars, trainvars, evalvars, dir_exists, cachevars>>

\* the epoch loop is exhausted and main returns
Finish ==
    /\ pc = "LOOP"
    /\ ~LoopContinues(epoch, num_train_epochs)
    /\ pc' = "DONE"
    /\ UNCHANGED <<argvars, epoch, best_acc_f1, results, saves, modelvars,
                   trainvars, evalvars, fsvars, cachevars>>

Next ==
    \/ LoadTrainDataset
    \/ LoadEvalDataset
    \/ SetupLogDir
    \/ TrainBegin
    \/ TrainStep
    \/ TrainEnd
    \/ EvalBegin
    \/ EvalStep
    \/ EvalEnd
    \/ Checkpoint
    \/ Finish

Spec == Init /\ [][Next]_vars

\* The script is one thread that runs to completion: whatever step is
\* enabled is eventually taken.
FairSpec == Spec /\ WF_vars(Next)

-----------------------------------------------------------------------------
\* load_and_cache_examples (lines 186-231), called any number of times
\* (over several runs of the script) while the tokenizer, max_seq_length
\* and the CSV files change between the calls.

LoadAndCacheExamples(s) ==
    /\ Len(returned[s]) < MaxCalls
    /\ LoadFeatures(s)
    /\ UNCHANGED runvars

\* the environment between two calls
ChangeTokenizer ==
    /\ \E t \in Tokenizers \ {tokenizer} : tokenizer' = t
    /\ UNCHANGED <<cache, csv, max_seq_length, tok_calls, csv_reads, returned, runvars>>

ChangeMaxLength ==
    /\ \E m \in MaxLengths \ {max_seq_length} : max_seq_length' = m
    /\ UNCHANGED <<cache, csv, tokenizer, tok_calls, csv_reads, returned, runvars>>

ChangeCsv ==
    /\ \E s \in Splits : \E c \in CsvVersions \ {csv[s]} : csv' = [csv EXCEPT ![s] = c]
    /\ UNCHANGED <<cache, tokenizer, max_seq_length, tok_calls, csv_reads, returned, runvars>>

\* the working directory holds no cache file, or one an earlier run wrote
PriorCaches(s) ==
    {NoCache} \cup
    {PriorCache(s, c, t, m) : c \in CsvVersions, t \in Tokenizers, m \in MaxLengths}

CacheInit ==
    /\ train_batch_size = 2
    /\ num_train_epochs = 1 /\ warmup_steps = 0 /\ seed = 42
    /\ pc = "START" /\ epoch = 0 /\ best_acc_f1 = 0
    /\ results = [loss |-> <<0, 1>>, acc_and_f1 |-> 0,
                  on |-> [n_preds |-> 0, n_labels |-> 0, examples |-> {}]]
    /\ saves = {}
    /\ params = 0 /\ opt_steps = 0 /\ sched_steps = 0 /\ training = FALSE
    /\ tr_loss = 0 /\ logging_loss = 0 /\ global_step = 0
    /\ preds = <<>> /\ out_label_ids = <<>>
    /\ ev_order = <<>> /\ ev_tr_loss = 0 /\ ev_global_step = 0
    /\ ev_preds = <<>> /\ ev_out_label_ids = <<>>
    /\ dir_exists = FALSE /\ files = [f \in FileNames |-> NoFile]
    /\ cache \in [Splits -> UNION {PriorCaches(s) : s \in Splits}]
    /\ \A s \in Splits : cache[s] \in PriorCaches(s)
    /\ csv \in [Splits -> CsvVersions]
    /\ tokenizer \in Tokenizers
    /\ max_seq_length \in MaxLengths
    /\ tok_calls = [s \in Splits |-> 0]
    /\ csv_reads = [s \in Splits |-> 0]
    /\ returned = [s \in Splits |-> <<>>]

CacheNext ==
    \/ \E s \in Splits : LoadAndCacheExamples(s)
    \/ ChangeTokenizer
    \/ ChangeMaxLength
    \/ ChangeCsv

CacheSpec == CacheInit /\ [][CacheNext]_vars

-----------------------------------------------------------------------------
\* Vocabulary of the properties

\* main is past the set-up of the log directory (line 318)
LogDirSetUp == pc \notin {"START", "LOADED_TRAIN", "INIT"}

EvalLines == files["eval_loss_file.txt"].data
LossLines == files["train_loss_file.txt"].data
AccLines  == files["train_acc_file.txt"].data

\* the combined metric of the evaluation of epoch e (0-based), once logged
MetricOf(e) == EvalLines[e + 1].acc_and_f1

RECURSIVE RunningBest(_)
\* the largest metric among epochs 0..e-1, and 0 if there is none
RunningBest(e) == IF e = 0 THEN 0 ELSE Max(RunningBest(e - 1), MetricOf(e - 1))

\* the epochs evaluated so far
EpochsLogged == 0..(Len(EvalLines) - 1)

\* the first epoch whose metric is the maximum of the run
BestEpoch ==
    CHOOSE e \in EpochsLogged :
        /\ \A j \in EpochsLogged : MetricOf(j) <= MetricOf(e)
        /\ \A j \in EpochsLogged : j < e => MetricOf(j) < MetricOf(e)

StepsPerEpoch == NumBatches(n_train, train_batch_size)

RECURSIVE LossSum(_, _, _, _)
\* the sum of the losses of steps from..to of a pass that starts with
\* parameters p0 (step k runs on the parameters left by step k - 1)
LossSum(sd, p0, from, to) ==
    IF from > to THEN 0
    ELSE ForwardLoss(sd, p0 + to - 1, to) + LossSum(sd, p0, from, to - 1)

\* the sum of the per-batch losses of steps from..to of epoch e
LossOfSteps(e, from, to) == LossSum(seed, e * StepsPerEpoch, from, to)

\* the number of examples in the batches of steps from..to: the sampler
\* hands out every example once, train_batch_size at a time
ExamplesOfSteps(from, to) ==
    LET upto(k) == IF k * train_batch_size < n_train THEN k * train_batch_size ELSE n_train
    IN  IF from > to THEN 0 ELSE upto(to) - upto(from - 1)

\* the step of the last log event of the running epoch (0 if none)
LastLogStep == global_step - (global_step % LogEvery)

CheckpointIs(p) ==
    /\ files["pytorch_model.bin"] = [exists |-> TRUE, data |-> <<[stale |-> FALSE, params |-> p]>>]
    /\ \A f \in CkptFiles : files[f].exists /\ ~files[f].data[1].stale

NoCheckpoint == \A f \in CkptFiles : ~files[f].exists

-----------------------------------------------------------------------------
\* C1: a checkpoint is saved at the end of an epoch iff that epoch's
\* acc_and_f1 is strictly greater than the best so far (0 before the first
\* epoch), and the best so far then becomes that value: the saves are exactly
\* the epochs that set a new strict maximum, and the best never decreases.
C1_Step ==
    /\ best_acc_f1' >= best_acc_f1
    /\ pc = "EVALUATED" =>
          IF results.acc_and_f1 > best_acc_f1
          THEN /\ best_acc_f1' = results.acc_and_f1
               /\ saves' = saves \cup {epoch}
               /\ CheckpointIs(params)'
          ELSE /\ best_acc_f1' = best_acc_f1
               /\ saves' = saves
               /\ \A f \in CkptFiles : files'[f] = files[f]
    /\ pc # "EVALUATED" => saves' = saves

C1_Saved ==
    LogDirSetUp =>
        /\ saves = {e \in EpochsLogged : MetricOf(e) > RunningBest(e)}
        /\ best_acc_f1 = RunningBest(Len(EvalLines))

\* C1: in every state the saves are exactly the epochs that set a new strict
\* maximum, and every step keeps the save-iff-strictly-better rule.
C1_SaveIffStrictlyBetter == [](C1_Saved) /\ [][C1_Step]_vars

\* metrics ordered like 0.5, 0.7, 0.6, 0.8: saved at all but the third epoch
C1_Witness ==
    /\ pc = "DONE"
    /\ Len(EvalLines) = 4
    /\ 0 < MetricOf(0) /\ MetricOf(0) < MetricOf(2)
    /\ MetricOf(2) < MetricOf(1) /\ MetricOf(1) < MetricOf(3)
    /\ saves = {0, 1, 3}

\* C2: at DONE, if some epoch's metric is above 0, the checkpoint in the log
\* directory holds the parameters of the first epoch whose metric is the
\* maximum of the run.
C2_BestModelPersisted ==
    (pc = "DONE" /\ \E e \in EpochsLogged : MetricOf(e) > 0) =>
        CheckpointIs((BestEpoch + 1) * StepsPerEpoch)

\* a run where a later epoch ties with the best one
C2_Witness ==
    /\ pc = "DONE"
    /\ \E e \in EpochsLogged :
          /\ e > BestEpoch
          /\ MetricOf(e) = MetricOf(BestEpoch)
          /\ MetricOf(e) > 0
    /\ CheckpointIs((BestEpoch + 1) * StepsPerEpoch)

\* C3: INIT -> (TRAIN_EPOCH -> EVAL_EPOCH) x num_train_epochs -> DONE: every
\* epoch is one full training pass followed by one full evaluation pass, the
\* metric never ends the loop early, and the run reaches DONE.
C3_Step ==
    /\ (pc' = "LOOP" /\ pc # "LOOP") => pc \in {"INIT", "EVALUATED"}
    /\ (pc' = "TRAIN" /\ pc # "TRAIN") => (pc = "LOOP" /\ epoch < num_train_epochs)
    /\ (pc' = "TRAINED" /\ pc # "TRAINED") => (pc = "TRAIN" /\ global_step = StepsPerEpoch)
    /\ (pc' = "EVAL" /\ pc # "EVAL") => (pc = "TRAINED" /\ global_step = StepsPerEpoch)
    /\ (pc' = "EVALUATED" /\ pc # "EVALUATED") =>
            (pc = "EVAL" /\ ev_global_step = NumBatches(n_eval, train_batch_size))
    /\ (pc' = "LOOP" /\ pc = "EVALUATED") => epoch' = epoch + 1
    /\ pc # "EVALUATED" => epoch' = epoch
    /\ (pc' = "DONE" /\ pc # "DONE") => (pc = "LOOP" /\ epoch = num_train_epochs)
    /\ pc = "DONE" => pc' = "DONE"

C3_AtDone ==
    pc = "DONE" =>
        /\ epoch = num_train_epochs
        /\ opt_steps = num_train_epochs * StepsPerEpoch
        /\ Len(EvalLines) = num_train_epochs

\* C3: every step follows the INIT/TRAIN/EVAL/DONE order, DONE is reached, and
\* at DONE exactly num_train_epochs full passes have run.
C3_EpochLoop == [][C3_Step]_vars /\ [](C3_AtDone) /\ <>(pc = "DONE")

\* a full-length run in which some epoch did not improve the metric
C3_Witness ==
    /\ pc = "DONE"
    /\ num_train_epochs = MaxEpochs
    /\ opt_steps = MaxEpochs * StepsPerEpoch
    /\ Cardinality(saves) < num_train_epochs

\* C4: a call of load_and_cache_examples with the cache file present loads
\* it and neither reads the CSV nor tokenizes; a call with the cache file
\* absent tokenizes once and writes the cache.  So a split is tokenized at
\* most once, and every call returns what the first call returned.
C4_Step ==
    \A s \in Splits :
        Len(returned'[s]) > Len(returned[s]) =>
            IF cache[s].exists
            THEN /\ tok_calls'[s] = tok_calls[s]
                 /\ csv_reads'[s] = csv_reads[s]
                 /\ cache'[s] = cache[s]
                 /\ returned'[s][Len(returned'[s])] = BuildDataset(cache[s].features)
            ELSE /\ tok_calls'[s] = tok_calls[s] + 1
                 /\ cache'[s] = [exists |-> TRUE,
                                 features |-> ConvertExamples(CsvRows(s, csv[s]), tokenizer, max_seq_length)]
                 /\ returned'[s][Len(returned'[s])] = BuildDataset(cache'[s].features)

C4_Once ==
    \A s \in Splits :
        /\ tok_calls[s] <= 1
        /\ csv_reads[s] <= 1
        /\ \A i \in DOMAIN returned[s] : returned[s][i] = returned[s][1]
        /\ returned[s] # <<>> => cache[s].exists

\* C4: every call obeys the hit/miss rule, and each split is tokenized at
\* most once with all calls returning the same features.
C4_CacheReused == [][C4_Step]_vars /\ [](C4_Once)

\* a split tokenized by its first call and loaded again after the tokenizer,
\* the length or the CSV changed, so that the cache is stale
C4_Witness ==
    \E s \in Splits :
        /\ Len(returned[s]) >= 2
        /\ tok_calls[s] = 1
        /\ cache[s].features # ConvertExamples(CsvRows(s, csv[s]), tokenizer, max_seq_length)

\* C5: the smoke run (4 training rows, 2 dev rows, 1 epoch, batch size 2)
Smoke ==
    /\ n_train = 4 /\ n_eval = 2 /\ num_train_epochs = 1 /\ train_batch_size = 2

\* C5 as stated: at DONE the three log files exist and are non-empty and
\* exactly one checkpoint has been written.
C5_AllLogsAndOneCheckpoint ==
    (Smoke /\ pc = "DONE") =>
        /\ \A f \in LogFiles : files[f].exists /\ Len(files[f].data) > 0
        /\ Cardinality(saves) = 1

\* C5 amended: at DONE the training pass has made 2 steps, eval_loss_file.txt
\* holds exactly one line, train_loss_file.txt and train_acc_file.txt do not
\* exist, and a checkpoint has been written once if the epoch's acc_and_f1
\* is above 0 and not at all otherwise.
C5_SmokeRun ==
    (Smoke /\ pc = "DONE") =>
        /\ opt_steps = 2
        /\ files["eval_loss_file.txt"].exists /\ Len(EvalLines) = 1
        /\ ~files["train_loss_file.txt"].exists
        /\ ~files["train_acc_file.txt"].exists
        /\ IF MetricOf(0) > 0
           THEN saves = {0} /\ CheckpointIs(2)
           ELSE saves = {} /\ NoCheckpoint

C5_Witness ==
    /\ Smoke /\ pc = "DONE"
    /\ opt_steps = 2
    /\ Len(EvalLines) = 1
    /\ saves = {0}

\* C6 as stated: a line is appended to the loss log at exactly the steps
\* whose count is a multiple of 100, and its loss is the sum of the losses
\* of the steps since the previous log event divided by their number.
C6_LinesSoFar ==
    IF pc \in {"TRAIN", "TRAINED", "EVAL", "EVALUATED"}
    THEN epoch * (StepsPerEpoch \div LogEvery) + (global_step \div LogEvery)
    ELSE epoch * (StepsPerEpoch \div LogEvery)

\* C6: every line of the loss log sits at a multiple of 100 steps and holds
\* the mean loss of the 100 steps since the previous log event.
C6_MeanLossSinceLastLog ==
    LogDirSetUp =>
        /\ Len(LossLines) = C6_LinesSoFar
        /\ \A i \in DOMAIN LossLines :
              LET perEpoch == StepsPerEpoch \div LogEvery
                  e        == (i - 1) \div perEpoch
                  it       == LogEvery * (((i - 1) % perEpoch) + 1)
              IN  /\ LossLines[i].iteration = it
                  /\ RatEq(LossLines[i].loss,
                           <<LossOfSteps(e, it - LogEvery + 1, it), LogEvery>>)

\* C7: once the log directory is set up it exists and holds nothing of an
\* earlier run; eval_loss_file.txt gets one line per finished epoch, in
\* epoch order, so at DONE it holds exactly num_train_epochs lines.
C7_Step ==
    pc = "INIT" => (dir_exists' /\ \A f \in FileNames : ~files'[f].exists)

C7_Clean ==
    LogDirSetUp =>
        /\ dir_exists
        /\ \A f \in FileNames : \A i \in DOMAIN files[f].data : ~files[f].data[i].stale
        /\ Len(EvalLines) = epoch
        /\ \A i \in DOMAIN EvalLines : EvalLines[i].epoch = i - 1
        /\ pc = "DONE" => Len(EvalLines) = num_train_epochs

\* C7: the set-up step empties the directory, and from then on the logs hold
\* only lines of this run, one eval line per finished epoch.
C7_FreshLogs == [][C7_Step]_vars /\ [](C7_Clean)

C7_Witness ==
    /\ pc = "DONE"
    /\ num_train_epochs >= 2
    /\ Len(EvalLines) = num_train_epochs
    /\ EvalLines[num_train_epochs].epoch = num_train_epochs - 1
    /\ files["pytorch_model.bin"].exists

\* C8 as stated: t_total equals the number of scheduler steps of the run,
\* so that (for warmup_steps < t_total) the learning rate is zero after the
\* last training step.
C8_BudgetEqualsSteps ==
    pc = "DONE" =>
        LET t_total == TTotal(n_train, num_train_epochs, train_batch_size)
        IN  /\ sched_steps = num_train_epochs * StepsPerEpoch
            /\ t_total = sched_steps
            /\ warmup_steps < t_total => GetLr(sched_steps)[1] = 0

\* C9: evaluate changes neither the parameters, the optimizer, the scheduler,
\* the best-so-far metric nor the files, and its result is computed on every
\* example of the eval dataset exactly once.
C9_Step ==
    pc \in {"TRAINED", "EVAL"} =>
        /\ pc' \in {"EVAL", "EVALUATED"}
        /\ UNCHANGED <<params, opt_steps, sched_steps, best_acc_f1, saves, epoch, fsvars, trainvars>>
        /\ GetLr(sched_steps') = GetLr(sched_steps)

C9_Result ==
    pc = "EVALUATED" =>
        /\ results.on.n_preds = n_eval
        /\ results.on.n_labels = n_eval
        /\ results.on.examples = 1..n_eval

\* C9: no step of evaluate changes parameters, optimizer, scheduler, best
\* metric or files, and its result covers each eval example exactly once.
C9_EvalIsReadOnly == [][C9_Step]_vars /\ [](C9_Result)

\* an evaluation whose last batch is short, after parameters were updated
C9_Witness ==
    /\ pc = "EVALUATED"
    /\ epoch >= 1
    /\ n_eval = 3 /\ train_batch_size = 2
    /\ results.on.examples = {1, 2, 3}
    /\ params = (epoch + 1) * StepsPerEpoch

\* C10: in train, after every step the two accumulators hold one entry per
\* example processed since the last log event of the epoch, logging_loss is
\* the sum of the losses of those steps, all three are empty/zero right
\* after a log event, tr_loss is the sum over the whole epoch so far, and
\* the metrics of a log event are computed on the entries of exactly the
\* steps since the previous log event.
C10_Accumulators ==
    /\ pc = "TRAIN" =>
          /\ Len(preds) = ExamplesOfSteps(LastLogStep + 1, global_step)
          /\ Len(out_label_ids) = Len(preds)
          /\ {preds[i] : i \in DOMAIN preds} = (LastLogStep + 1)..global_step
          /\ {out_label_ids[i] : i \in DOMAIN out_label_ids} = (LastLogStep + 1)..global_step
          /\ logging_loss = LossOfSteps(epoch, LastLogStep + 1, global_step)
          /\ tr_loss = LossOfSteps(epoch, 1, global_step)
          /\ global_step % LogEvery = 0 =>
                (preds = <<>> /\ out_label_ids = <<>> /\ logging_loss = 0)
    /\ LogDirSetUp =>
          \A i \in DOMAIN AccLines :
              LET it == AccLines[i].iteration
              IN  /\ AccLines[i].results.steps = (it - LogEvery + 1)..it
                  /\ AccLines[i].results.n_preds = ExamplesOfSteps(it - LogEvery + 1, it)
                  /\ AccLines[i].results.n_labels = AccLines[i].results.n_preds

\* between the first and the second log event of an epoch, batches of two
C10_Witness ==
    /\ pc = "TRAIN"
    /\ train_batch_size = 2
    /\ global_step > LogEvery /\ global_step % LogEvery # 0
    /\ Len(AccLines) >= 1
    /\ Len(preds) = ExamplesOfSteps(LogEvery + 1, global_step)
    /\ logging_loss > 0 /\ logging_loss < tr_loss

====
